---- MODULE Spec2Model ----
(***************************************************************************)
(* Model of the business simulation backend: the simple projection engine *)
(* (runSimulation) behind POST /api/simulate, the advanced projection      *)
(* engine (runAdvancedSimulation) with its debt amortizer and KPI          *)
(* calculators, and the bisection root finder (computeIRR).                *)
(*                                                                         *)
(* JavaScript values are records [k, v]: k is the kind ("num", "nan",      *)
(* "undef", "null") and v the payload.  A number is a decimal fixed-point  *)
(* value: v counts units of 1/SCALE, and every product and quotient is     *)
(* rounded toward zero to that resolution, the way a double rounds to its  *)
(* own.  IEEE infinities are outside the value domain: evaluation stops    *)
(* (Unmodelled) if a nonzero value were ever divided by zero.              *)
(***************************************************************************)
EXTENDS Integers, Sequences, FiniteSets, TLC

\* ------------------------------------------------------------------ bounds
MaxPeriods == 2
MaxIterations == 3
MaxFlows == 2

SCALE == 10 * 10

\* ------------------------------------------------------------ JS values
Num(x) == [k |-> "num", v |-> x]
Whole(i) == Num(i * SCALE)
NaN == [k |-> "nan", v |-> 0]
Undef == [k |-> "undef", v |-> 0]
Null == [k |-> "null", v |-> 0]
Zero == Num(0)
One == Whole(1)

IsNum(x) == x.k = "num"
Unmodelled == CHOOSE x \in {} : TRUE

Abs(a) == IF a < 0 THEN -a ELSE a
Sgn(a) == IF a < 0 THEN -1 ELSE 1
\* integer quotient rounded toward zero
Quot(a, b) == Sgn(a) * Sgn(b) * (Abs(a) \div Abs(b))
\* a * b / SCALE without leaving the 32-bit range on the way
MulScaled(a, b) ==
  Sgn(a) * Sgn(b) *
    ((Abs(a) \div SCALE) * Abs(b) + ((Abs(a) % SCALE) * Abs(b)) \div SCALE)

\* a * SCALE / b, likewise
DivScaled(a, b) ==
  Sgn(a) * Sgn(b) *
    ((Abs(a) \div Abs(b)) * SCALE + ((Abs(a) % Abs(b)) * SCALE) \div Abs(b))

\* Number(x): undefined -> NaN, null -> 0
ToNumber(x) ==
  CASE x.k = "num" -> x
    [] x.k = "null" -> Zero
    [] OTHER -> NaN

\* truthiness: undefined, null, NaN and 0 are falsy
Falsy(x) == x.k \in {"undef", "null", "nan"} \/ (x.k = "num" /\ x.v = 0)
\* a || b
OrElse(a, b) == IF Falsy(a) THEN b ELSE a
\* a ?? b
Coalesce(a, b) == IF a.k \in {"undef", "null"} THEN b ELSE a

Add(a, b) == IF IsNum(a) /\ IsNum(b) THEN Num(a.v + b.v) ELSE NaN
Sub(a, b) == IF IsNum(a) /\ IsNum(b) THEN Num(a.v - b.v) ELSE NaN
Mul(a, b) == IF IsNum(a) /\ IsNum(b) THEN Num(MulScaled(a.v, b.v)) ELSE NaN
Div(a, b) ==
  IF ~(IsNum(a) /\ IsNum(b)) THEN NaN
  ELSE IF b.v # 0 THEN Num(DivScaled(a.v, b.v))
  ELSE IF a.v = 0 THEN NaN
  ELSE Unmodelled
Neg(a) == IF IsNum(a) THEN Num(-a.v) ELSE NaN

\* comparisons: every comparison with NaN is false
Lt(a, b) == IsNum(a) /\ IsNum(b) /\ a.v < b.v
Le(a, b) == IsNum(a) /\ IsNum(b) /\ a.v <= b.v
Gt(a, b) == Lt(b, a)
Ge(a, b) == Le(b, a)

\* Math.min / Math.max / Math.abs: NaN if an argument is NaN
MathMin(a, b) == IF IsNum(a) /\ IsNum(b) THEN (IF a.v <= b.v THEN a ELSE b) ELSE NaN
MathMax(a, b) == IF IsNum(a) /\ IsNum(b) THEN (IF a.v >= b.v THEN a ELSE b) ELSE NaN
MathAbs(a) == IF IsNum(a) THEN Num(Abs(a.v)) ELSE NaN

\* Math.pow(x, n) for an integer exponent n
RECURSIVE PowNat(_, _)
PowNat(x, n) == IF n = 0 THEN One ELSE Mul(PowNat(x, n - 1), x)
MathPow(x, n) == IF n >= 0 THEN PowNat(x, n) ELSE Div(One, PowNat(x, -n))

\* Math.sqrt for a value >= 0: the largest r with r*r <= x at the resolution
\* (at 1/10 for a value whose scaled square would leave the 32-bit range)
RECURSIVE SqrtSearch(_, _, _)
SqrtSearch(target, lo, hi) ==
  IF lo >= hi THEN lo
  ELSE LET mid == (lo + hi + 1) \div 2
       IN IF mid * mid <= target THEN SqrtSearch(target, mid, hi)
          ELSE SqrtSearch(target, lo, mid - 1)
MathSqrt(x) ==
  IF ~IsNum(x) \/ x.v < 0 THEN NaN
  ELSE IF x.v <= 2147483647 \div SCALE THEN Num(SqrtSearch(x.v * SCALE, 0, 46340))
  ELSE Num(10 * SqrtSearch(x.v, 0, 46340))

\* property access on a value that may be a plain number: 0 .riskIndex is undefined
Prop(x, name) == IF x.k = "obj" THEN x[name] ELSE Undef

\* --------------------------------------------------------- KPI calculators
RECURSIVE SumFrom(_, _, _)
\* xs.reduce((a, b) => a + b, acc) over xs[i..]
SumFrom(xs, i, acc) ==
  IF i > Len(xs) THEN acc ELSE SumFrom(xs, i + 1, Add(acc, xs[i]))

RECURSIVE SumSqDev(_, _, _, _)
SumSqDev(xs, mean, i, acc) ==
  IF i > Len(xs) THEN acc
  ELSE LET dev == Sub(xs[i], mean)
       IN SumSqDev(xs, mean, i + 1, Add(acc, Mul(dev, dev)))

computeROI(totalNetProfit, initialInvestment) ==
  IF Falsy(initialInvestment) THEN Null
  ELSE Div(totalNetProfit, initialInvestment)

\* the comparison made strict: misses the period that lands exactly on the target
BreakEvenReachedStrict(cumulative, initialInvestment) == Gt(cumulative, initialInvestment)

BreakEvenReached(cumulative, initialInvestment) == Ge(cumulative, initialInvestment)

RECURSIVE BreakEvenScan(_, _, _)
BreakEvenScan(cumulativeProfits, initialInvestment, i) ==
  IF i > Len(cumulativeProfits) THEN Null
  ELSE IF BreakEvenReached(cumulativeProfits[i], initialInvestment) THEN Whole(i)
  ELSE BreakEvenScan(cumulativeProfits, initialInvestment, i + 1)

computeBreakEven(cumulativeProfits, initialInvestment) ==
  IF Falsy(initialInvestment) \/ Le(initialInvestment, Zero) THEN Null
  ELSE BreakEvenScan(cumulativeProfits, initialInvestment, 1)

computeRiskIndex(profits) ==
  IF Len(profits) = 0 THEN Zero
  ELSE LET mean == Div(SumFrom(profits, 1, Zero), Whole(Len(profits)))
           variance == Div(SumSqDev(profits, mean, 1, Zero), Whole(Len(profits)))
           std == MathSqrt(variance)
       IN [k |-> "obj", std |-> std, mean |-> mean, riskIndex |-> std]

\* --------------------------------------------------------------- computeIRR
RECURSIVE NpvFrom(_, _, _, _)
\* cashFlows.reduce((acc, cf, t) => acc + cf / Math.pow(1 + rate, t), 0)
NpvFrom(cashFlows, rate, i, acc) ==
  IF i > Len(cashFlows) THEN acc
  ELSE NpvFrom(cashFlows, rate, i + 1,
               Add(acc, Div(cashFlows[i], MathPow(Add(One, rate), i - 1))))
npv(cashFlows, rate) == NpvFrom(cashFlows, rate, 1, Zero)

\* the sign of the double a * b (NaN if an operand is NaN): a double product
\* keeps its sign at every magnitude reached here, where the fixed-point
\* product would round a small one to 0
ProductSign(a, b) ==
  IF IsNum(a) /\ IsNum(b)
  THEN Whole((IF a.v > 0 THEN 1 ELSE IF a.v < 0 THEN -1 ELSE 0) *
             (IF b.v > 0 THEN 1 ELSE IF b.v < 0 THEN -1 ELSE 0))
  ELSE NaN

\* fLow * fHigh > 0: no sign change is guaranteed in range
NoBracket(fLow, fHigh) == Gt(ProductSign(fLow, fHigh), Zero)
\* fLow * fMid <= 0: the root lies in the lower half
RootInLowerHalf(fLow, fMid) == Le(ProductSign(fLow, fMid), Zero)
Midpoint(low, high) == Div(Add(low, high), Whole(2))

\* ------------------------------------------------------- records and tables
NoRecord == [k |-> "null"]
\* Model.findByPk(id): the row, or null when no row has that key
findByPk(table, id) == IF id \in DOMAIN table THEN table[id] ELSE NoRecord
Found(rec) == rec.k # "null"
\* business?.revenue and the like; a column the table lacks reads as undefined
FieldOf(rec, name) == IF Found(rec) /\ name \in DOMAIN rec THEN rec[name] ELSE Undef

NoList == [k |-> "undef", v |-> <<>>]
List(xs) == [k |-> "arr", v |-> xs]

NoOverrides ==
  [revenue |-> Undef, cost |-> Undef, initialInvestment |-> Undef,
   cashBalance |-> Undef, growthRate |-> Undef, costRate |-> Undef,
   growthRateDelta |-> Undef, costRateDelta |-> Undef, debts |-> NoList,
   oneTimeInvestments |-> NoList, marketingPerPeriod |-> Undef,
   priceDeltaPercent |-> Undef, marketingMultiplier |-> Undef]

\* ------------------------------------------------------------ runSimulation
SimLookupFails(business, strategy) == ~Found(business) \/ ~Found(strategy)

\* the loop body with cost grown by the revenue growth rate
SimPeriodCostByGrowth(revenue, cost, strategy, t) ==
  LET rev == Mul(revenue, Add(One, strategy.growthRate))
      cst == Mul(cost, Add(One, strategy.growthRate))
  IN [period |-> t, revenue |-> rev, cost |-> cst, profit |-> Sub(rev, cst)]

SimPeriod(revenue, cost, strategy, t) ==
  LET rev == Mul(revenue, Add(One, strategy.growthRate))
      cst == Mul(cost, Add(One, strategy.costRate))
  IN [period |-> t, revenue |-> rev, cost |-> cst, profit |-> Sub(rev, cst)]

RECURSIVE SimLoop(_, _, _, _, _, _)
SimLoop(revenue, cost, strategy, periods, t, results) ==
  IF t > periods THEN results
  ELSE LET r == SimPeriod(revenue, cost, strategy, t)
       IN SimLoop(r.revenue, r.cost, strategy, periods, t + 1, Append(results, r))

runSimulation(business, strategy, periods) ==
  SimLoop(business.revenue, business.cost, strategy, periods, 1, <<>>)

\* --------------------------------------------------- runAdvancedSimulation
\* the lookup checks without the one on the strategy
AdvLookupFailsBusinessOnly(businessId, business, strategyId, strategy) ==
  businessId # 0 /\ ~Found(business)

AdvLookupFails(businessId, business, strategyId, strategy) ==
  (businessId # 0 /\ ~Found(business)) \/ (strategyId # 0 /\ ~Found(strategy))

StartRevenue(business, overrides) ==
  IF Found(business) THEN ToNumber(business.revenue)
  ELSE ToNumber(OrElse(overrides.revenue, Whole(1000)))

StartCost(business, overrides) ==
  IF Found(business) THEN ToNumber(business.cost)
  ELSE ToNumber(OrElse(overrides.cost, Whole(500)))

InitialInvestment(business, overrides) ==
  ToNumber(Coalesce(Coalesce(overrides.initialInvestment,
                             FieldOf(business, "initialInvestment")), Zero))

StartCash(business, overrides) ==
  ToNumber(Coalesce(Coalesce(overrides.cashBalance,
                             FieldOf(business, "cashBalance")), Zero))

GrowthRateBase(strategy, overrides) ==
  IF Found(strategy) THEN ToNumber(strategy.growthRate)
  ELSE ToNumber(Coalesce(overrides.growthRate, Num(5)))

CostRateBase(strategy, overrides) ==
  IF Found(strategy) THEN ToNumber(strategy.costRate)
  ELSE ToNumber(Coalesce(overrides.costRate, Num(2)))

scenarioDefaults ==
  [startup |-> [growthRateBoost |-> Num(5), costVolatility |-> Num(15)],
   manufacturing |-> [growthRateBoost |-> Num(2), costVolatility |-> Num(8)],
   retail |-> [growthRateBoost |-> Num(3), costVolatility |-> Num(10)],
   generic |-> [growthRateBoost |-> Num(0), costVolatility |-> Num(10)]]

ScenarioOf(scenario) ==
  IF scenario \in DOMAIN scenarioDefaults THEN scenarioDefaults[scenario]
  ELSE scenarioDefaults.generic

\* one entry of the debts list, as the map callback builds it; the alias fields
\* amount, rate and term are absent from every debt drawn here
DebtOf(d) ==
  [principal |-> ToNumber(OrElse(OrElse(d.principal, Undef), Zero)),
   annualRate |-> ToNumber(OrElse(OrElse(d.annualRate, Undef), Zero)),
   periodsToRepay |-> ToNumber(OrElse(OrElse(d.periodsToRepay, Undef), Zero)),
   startPeriod |-> ToNumber(OrElse(d.startPeriod, One)),
   remaining |-> ToNumber(OrElse(OrElse(d.principal, Undef), Zero))]

RECURSIVE MapDebts(_, _)
MapDebts(ds, i) == IF i > Len(ds) THEN <<>> ELSE <<DebtOf(ds[i])>> \o MapDebts(ds, i + 1)

\* (overrides.debts || business?.debts || []).map(...); Business has no debts column
StartDebts(business, overrides) ==
  IF overrides.debts.k = "arr" THEN MapDebts(overrides.debts.v, 1) ELSE <<>>

\* cashFlows without the period-0 flow
InitialCashFlowsUnseeded(initialInvestment) == <<>>

InitialCashFlows(initialInvestment) == <<Neg(initialInvestment)>>

\* Math.pow(1 + rate, -n), n a whole number
AnnuityDiscount(rate, n) ==
  IF IsNum(n) THEN MathPow(Add(One, rate), -Quot(n.v, SCALE)) ELSE NaN

\* one debt in one period: the debt afterwards and what was paid
ServiceDebt(d, t) ==
  IF Ge(Whole(t), d.startPeriod) /\ Gt(d.remaining, Zero) /\ ~Le(d.periodsToRepay, Zero)
  THEN LET rate == d.annualRate
           payment == Div(Mul(d.principal, rate),
                          Sub(One, AnnuityDiscount(rate, d.periodsToRepay)))
           interest == Mul(d.remaining, rate)
           paymentAmount == MathMin(payment, Add(d.remaining, interest))
       IN [debt |-> [d EXCEPT !.remaining =
                       MathMax(Zero, Sub(d.remaining, Sub(paymentAmount, interest)))],
           paid |-> TRUE, amount |-> paymentAmount]
  ELSE [debt |-> d, paid |-> FALSE, amount |-> Zero]

RECURSIVE ServiceDebts(_, _, _, _)
\* the for-of loop over debts: the debts afterwards and debtPaymentTotal
ServiceDebts(ds, t, i, total) ==
  IF i > Len(ds) THEN [debts |-> ds, total |-> total]
  ELSE LET s == ServiceDebt(ds[i], t)
       IN ServiceDebts([ds EXCEPT ![i] = s.debt], t, i + 1,
                       IF s.paid THEN Add(total, s.amount) ELSE total)

RECURSIVE InvestmentThisPeriod(_, _, _, _)
InvestmentThisPeriod(invs, t, i, acc) ==
  IF i > Len(invs) THEN acc
  ELSE InvestmentThisPeriod(invs, t, i + 1,
         IF invs[i].period = t THEN Add(acc, ToNumber(OrElse(invs[i].amount, Zero)))
         ELSE acc)

EffectiveGrowthRate(growthRateBase, overrides, sDefaults) ==
  Add(Add(growthRateBase, Coalesce(overrides.growthRateDelta, Zero)),
      OrElse(sDefaults.growthRateBoost, Zero))

EffectiveCostRate(costRateBase, overrides) ==
  Add(costRateBase, Coalesce(overrides.costRateDelta, Zero))

\* revenue after growth, price change, marketing lift and (u = Math.random()) noise
NextRevenue(revenue, growthRate, overrides, sDefaults, stochastic, u) ==
  LET marketingPerPeriod == ToNumber(OrElse(overrides.marketingPerPeriod, Zero))
      priceDeltaPercent == ToNumber(OrElse(overrides.priceDeltaPercent, Zero))
      grown == Mul(revenue, Add(One, growthRate))
      priced == Mul(grown, Add(One, priceDeltaPercent))
      lifted == IF Gt(marketingPerPeriod, Zero)
                THEN Add(priced, Mul(marketingPerPeriod,
                                     Coalesce(overrides.marketingMultiplier, Whole(2))))
                ELSE priced
      vol == OrElse(sDefaults.costVolatility, Num(10))
      noise == Mul(Mul(Sub(Mul(u, Whole(2)), One), vol), lifted)
  IN IF stochastic THEN MathMax(Zero, Add(lifted, noise)) ELSE lifted

NextCost(cost, costRate, overrides) ==
  Add(Mul(cost, Add(One, costRate)), ToNumber(OrElse(overrides.marketingPerPeriod, Zero)))

\* the update as an assignment in place of an accumulation
NextCumulativeProfitAssigned(cumulativeProfit, profit) == profit

NextCumulativeProfit(cumulativeProfit, profit) == Add(cumulativeProfit, profit)

RECURSIVE DebtSnapshot(_, _)
DebtSnapshot(ds, i) ==
  IF i > Len(ds) THEN <<>>
  ELSE <<[remaining |-> ds[i].remaining, principal |-> ds[i].principal]>>
       \o DebtSnapshot(ds, i + 1)

RECURSIVE Column(_, _, _)
\* results.map(r => r[name])
Column(rs, name, i) ==
  IF i > Len(rs) THEN <<>> ELSE <<rs[i][name]>> \o Column(rs, name, i + 1)

\* ------------------------------------------------------------------- state
VARIABLES
  Business,          \* the Business table: id -> row
  Strategy,          \* the Strategy table: id -> row
  SimulationRun,     \* the SimulationRun table, in insertion order
  req,               \* the request: ids, periods, overrides, scenario, stochastic
  hpc,               \* position of the POST /api/simulate handler
  simResults,        \* what runSimulation returned to the handler
  response,          \* the handler's HTTP answer
  pc,                \* position of runAdvancedSimulation
  t,                 \* loop iterations of runAdvancedSimulation completed
  revenue, cost, cash, cumulativeProfit, debts, results, cashFlows,
  result,            \* the document runAdvancedSimulation returned
  irrIn,             \* computeIRR's arguments
  irr                \* computeIRR's locals: pc, low, high, fLow, fHigh, i, ret

vars == <<Business, Strategy, SimulationRun, req, hpc, simResults, response,
          pc, t, revenue, cost, cash, cumulativeProfit, debts, results,
          cashFlows, result, irrIn, irr>>

tableVars == <<Business, Strategy, req>>
handlerVars == <<SimulationRun, hpc, simResults, response>>
advVars == <<pc, t, revenue, cost, cash, cumulativeProfit, debts, results,
             cashFlows, result>>
irrVars == <<irrIn, irr>>

NoResponse == [status |-> 0, error |-> "", simulationId |-> 0, results |-> <<>>]
NoDocument == [k |-> "none"]
IrrIdle == [pc |-> "idle", low |-> Zero, high |-> Zero, fLow |-> Zero,
            fHigh |-> Zero, i |-> 0, ret |-> Undef]
NoIrrInput == [cashFlows |-> <<>>, guessLow |-> Zero, guessHigh |-> Zero,
               iterations |-> 0, tol |-> Zero]

\* ------------------------------------------------------------------ inputs
BusinessRow(r, c) == [k |-> "obj", revenue |-> r, cost |-> c]
StrategyRow(g, c) == [k |-> "obj", growthRate |-> g, costRate |-> c]

BusinessTables == {(1 :> BusinessRow(Whole(100), Whole(50)))}
StrategyTables ==
  {(1 :> StrategyRow(Num(10), Num(5))), (1 :> StrategyRow(Zero, Num(50)))}

Request(b, s, p, ov, sc, st) ==
  [businessId |-> b, strategyId |-> s, periods |-> p, overrides |-> ov,
   scenario |-> sc, stochastic |-> st]

\* ids 1 resolve, ids 2 do not, 0 stands for an id that was not supplied
Ids == {0, 1, 2}

\* requests that vary the lookups and the starting-value overrides
LookupRequests ==
  {Request(b, s, p,
           [NoOverrides EXCEPT !.revenue = r, !.cost = c, !.growthRate = g,
                               !.costRate = cr],
           "generic", FALSE) :
     b \in Ids, s \in Ids, p \in 0..MaxPeriods,
     r \in {Undef, Zero, Whole(300)}, c \in {Undef, Whole(200)},
     g \in {Undef, Num(10)}, cr \in {Undef, Num(10)}}

DebtChoices ==
  {[principal |-> Whole(100), annualRate |-> r, periodsToRepay |-> n,
    startPeriod |-> sp] :
     r \in {Zero, Num(10), Num(50)}, n \in {Zero, Whole(1), Whole(3)},
     sp \in {Undef, Whole(2)}}

DebtLists ==
  {<<>>} \cup {<<d>> : d \in DebtChoices}
         \cup {<<d, e>> : d \in DebtChoices, e \in DebtChoices}

\* requests that vary the debts and the one-time investments
DebtRequests ==
  {Request(1, 1, p,
           [NoOverrides EXCEPT !.debts = List(ds), !.oneTimeInvestments = inv,
                               !.initialInvestment = Whole(100)],
           "generic", FALSE) :
     p \in 0..MaxPeriods, ds \in DebtLists,
     inv \in {NoList, List(<<[period |-> 1, amount |-> Whole(10)]>>)}}

Marketing ==
  {<<Undef, Undef>>, <<Whole(10), Undef>>, <<Whole(10), Whole(3)>>}

\* requests that vary the scenario and the per-period levers
LeverRequests ==
  {Request(b, b, p,
           [NoOverrides EXCEPT !.growthRateDelta = gd, !.costRateDelta = cd,
                               !.priceDeltaPercent = pd,
                               !.marketingPerPeriod = m[1],
                               !.marketingMultiplier = m[2],
                               !.initialInvestment = ii,
                               !.cashBalance = ii],
           sc, st) :
     b \in {0, 1}, p \in 0..MaxPeriods, gd \in {Undef, Num(-5)},
     cd \in {Undef, Num(-5)}, pd \in {Undef, Num(10)}, m \in Marketing,
     ii \in {Undef, Zero, Whole(-10), Num(5750)},
     sc \in {"generic", "startup", "other"}, st \in BOOLEAN}

Requests == LookupRequests \cup DebtRequests \cup LeverRequests

\* values Math.random() may return
RandomDraws == {Zero, Num(75)}

\* ----------------------------------------------------- derived run locals
business == findByPk(Business, req.businessId)
strategy == findByPk(Strategy, req.strategyId)
initialInvestment == InitialInvestment(business, req.overrides)
sDefaults == ScenarioOf(req.scenario)
oneTimeInvestments ==
  IF req.overrides.oneTimeInvestments.k = "arr"
  THEN req.overrides.oneTimeInvestments.v ELSE <<>>

AdvIdle ==
  /\ pc = "start" /\ t = 0 /\ revenue = Undef /\ cost = Undef /\ cash = Undef
  /\ cumulativeProfit = Undef /\ debts = <<>> /\ results = <<>>
  /\ cashFlows = <<>> /\ result = NoDocument

Init ==
  /\ Business \in BusinessTables
  /\ Strategy \in StrategyTables
  /\ SimulationRun = <<>>
  /\ req \in Requests
  /\ hpc = "recv" /\ simResults = <<>> /\ response = NoResponse
  /\ AdvIdle
  /\ irrIn = NoIrrInput /\ irr = IrrIdle

\* ------------------------------------------- POST /api/simulate (handler)
\* runSimulation throws: a lookup returned null
HandlerSimulationThrows ==
  /\ hpc = "recv"
  /\ SimLookupFails(business, strategy)
  /\ hpc' = "caught"
  /\ UNCHANGED <<SimulationRun, simResults, response>>
  /\ UNCHANGED <<tableVars, advVars, irrVars>>

\* runSimulation returns its results
HandlerSimulationReturns ==
  /\ hpc = "recv"
  /\ ~SimLookupFails(business, strategy)
  /\ simResults' = runSimulation(business, strategy, req.periods)
  /\ hpc' = "returned"
  /\ UNCHANGED <<SimulationRun, response>>
  /\ UNCHANGED <<tableVars, advVars, irrVars>>

\* SimulationRun.create({BusinessId, StrategyId, results})
HandlerCreate ==
  /\ hpc = "returned"
  /\ SimulationRun' = Append(SimulationRun,
        [id |-> Len(SimulationRun) + 1, BusinessId |-> req.businessId,
         StrategyId |-> req.strategyId, results |-> simResults])
  /\ hpc' = "saved"
  /\ UNCHANGED <<simResults, response>>
  /\ UNCHANGED <<tableVars, advVars, irrVars>>

\* res.json({message, simulationId, results})
HandlerRespond ==
  /\ hpc = "saved"
  /\ response' = [status |-> 200, error |-> "",
                  simulationId |-> SimulationRun[Len(SimulationRun)].id,
                  results |-> simResults]
  /\ hpc' = "done"
  /\ UNCHANGED <<SimulationRun, simResults>>
  /\ UNCHANGED <<tableVars, advVars, irrVars>>

\* catch (err): res.status(400).json({error: err.message})
HandlerCatch ==
  /\ hpc = "caught"
  /\ response' = [status |-> 400, error |-> "Invalid business or strategy",
                  simulationId |-> 0, results |-> <<>>]
  /\ hpc' = "done"
  /\ UNCHANGED <<SimulationRun, simResults>>
  /\ UNCHANGED <<tableVars, advVars, irrVars>>

\* ---------------------------------------------------- runAdvancedSimulation
\* a supplied id did not resolve: throw before anything is computed
AdvThrow ==
  /\ pc = "start"
  /\ AdvLookupFails(req.businessId, business, req.strategyId, strategy)
  /\ pc' = "failed"
  /\ UNCHANGED <<t, revenue, cost, cash, cumulativeProfit, debts, results,
                 cashFlows, result>>
  /\ UNCHANGED <<tableVars, handlerVars, irrVars>>

\* everything from the lookups to the head of the period loop
AdvStart ==
  /\ pc = "start"
  /\ ~AdvLookupFails(req.businessId, business, req.strategyId, strategy)
  /\ revenue' = StartRevenue(business, req.overrides)
  /\ cost' = StartCost(business, req.overrides)
  /\ cash' = StartCash(business, req.overrides)
  /\ debts' = StartDebts(business, req.overrides)
  /\ results' = <<>>
  /\ cumulativeProfit' = Zero
  /\ cashFlows' = InitialCashFlows(initialInvestment)
  /\ t' = 0
  /\ pc' = "loop"
  /\ UNCHANGED result
  /\ UNCHANGED <<tableVars, handlerVars, irrVars>>

\* one iteration of the period loop
AdvPeriod ==
  /\ pc = "loop"
  /\ t < req.periods
  /\ \E u \in (IF req.stochastic THEN RandomDraws ELSE {Zero}) :
       LET period == t + 1
           growthRate == EffectiveGrowthRate(GrowthRateBase(strategy, req.overrides),
                                             req.overrides, sDefaults)
           costRate == EffectiveCostRate(CostRateBase(strategy, req.overrides),
                                         req.overrides)
           rev == NextRevenue(revenue, growthRate, req.overrides, sDefaults,
                              req.stochastic, u)
           cst == NextCost(cost, costRate, req.overrides)
           investmentThisPeriod == InvestmentThisPeriod(oneTimeInvestments, period, 1, Zero)
           profit == Sub(rev, cst)
           serviced == ServiceDebts(debts, period, 1, Zero)
           netThisPeriod == Sub(Sub(profit, investmentThisPeriod), serviced.total)
           cum == NextCumulativeProfit(cumulativeProfit, profit)
       IN /\ revenue' = rev
          /\ cost' = cst
          /\ debts' = serviced.debts
          /\ cash' = Add(cash, netThisPeriod)
          /\ cumulativeProfit' = cum
          /\ cashFlows' = Append(cashFlows, netThisPeriod)
          /\ results' = Append(results,
               [period |-> period, revenue |-> ToNumber(rev), cost |-> ToNumber(cst),
                profit |-> ToNumber(profit),
                investment |-> ToNumber(investmentThisPeriod),
                debtPayment |-> ToNumber(serviced.total),
                netCashFlow |-> ToNumber(netThisPeriod),
                cashBalance |-> ToNumber(Add(cash, netThisPeriod)),
                cumulativeProfit |-> ToNumber(cum),
                debts |-> DebtSnapshot(serviced.debts, 1)])
          /\ t' = period
  /\ UNCHANGED <<pc, result>>
  /\ UNCHANGED <<tableVars, handlerVars, irrVars>>

\* the KPIs and the returned document (kpis.IRR is computeIRR(cashFlows), whose
\* steps are the Irr actions below)
AdvReturn ==
  /\ pc = "loop"
  /\ t >= req.periods
  /\ LET totalNetProfit == SumFrom(Column(results, "profit", 1), 1, Zero)
         risk == computeRiskIndex(Column(results, "profit", 1))
     IN result' =
          [k |-> "doc",
           meta |-> [periods |-> req.periods, scenario |-> req.scenario,
                     overrides |-> req.overrides,
                     initialInvestment |-> initialInvestment,
                     startingRevenue |->
                       ToNumber(Coalesce(Coalesce(FieldOf(business, "revenue"),
                                                  req.overrides.revenue), revenue)),
                     startingCost |->
                       ToNumber(Coalesce(Coalesce(FieldOf(business, "cost"),
                                                  req.overrides.cost), cost))],
           results |-> results,
           kpis |-> [totalNetProfit |-> totalNetProfit,
                     ROI |-> computeROI(totalNetProfit, initialInvestment),
                     breakEvenPeriod |->
                       computeBreakEven(Column(results, "cumulativeProfit", 1),
                                        initialInvestment),
                     riskIndex |-> Prop(risk, "riskIndex"),
                     profitStdDev |-> Prop(risk, "std"),
                     profitMean |-> Prop(risk, "mean"),
                     cashFlows |-> cashFlows]]
  /\ pc' = "done"
  /\ UNCHANGED <<t, revenue, cost, cash, cumulativeProfit, debts, results, cashFlows>>
  /\ UNCHANGED <<tableVars, handlerVars, irrVars>>

\* --------------------------------------------------------------- computeIRR
\* cashFlows[0] is -initialInvestment, a number; a later flow is a period's
\* net cash flow, which is NaN once a zero-rate debt has been serviced
IrrSeedFlows == {Whole(-100), Zero}
IrrFlowValues == {Whole(-100), Whole(60), Whole(110), NaN}

RECURSIVE FlowSeqs(_)
FlowSeqs(n) ==
  IF n = 0 THEN {<<>>}
  ELSE LET shorter == FlowSeqs(n - 1)
       IN shorter \cup {Append(fs, f) : fs \in {x \in shorter : Len(x) = n - 1},
                                        f \in IrrFlowValues}

IrrInputs ==
  {[cashFlows |-> cf, guessLow |-> lo, guessHigh |-> hi, iterations |-> n,
    tol |-> tl] :
     cf \in {<<c0>> \o rest : c0 \in IrrSeedFlows, rest \in FlowSeqs(MaxFlows)},
     lo \in {Num(-50), Zero}, hi \in {One, Whole(10)},
     n \in 0..MaxIterations, tl \in {Num(1), Whole(5)}}

InitIRR ==
  /\ Business \in BusinessTables
  /\ Strategy \in StrategyTables
  /\ SimulationRun = <<>>
  /\ req = Request(0, 0, 0, NoOverrides, "generic", FALSE)
  /\ hpc = "idle" /\ simResults = <<>> /\ response = NoResponse
  /\ pc = "idle" /\ t = 0 /\ revenue = Undef /\ cost = Undef /\ cash = Undef
  /\ cumulativeProfit = Undef /\ debts = <<>> /\ results = <<>>
  /\ cashFlows = <<>> /\ result = NoDocument
  /\ irrIn \in IrrInputs
  /\ irr = [IrrIdle EXCEPT !.pc = "call"]

\* the values at the initial bounds have the same sign: return null
IrrNoBracket ==
  /\ irr.pc = "call"
  /\ NoBracket(npv(irrIn.cashFlows, irrIn.guessLow), npv(irrIn.cashFlows, irrIn.guessHigh))
  /\ irr' = [irr EXCEPT !.pc = "returned", !.ret = Null,
                        !.low = irrIn.guessLow, !.high = irrIn.guessHigh,
                        !.fLow = npv(irrIn.cashFlows, irrIn.guessLow),
                        !.fHigh = npv(irrIn.cashFlows, irrIn.guessHigh)]
  /\ UNCHANGED <<irrIn, tableVars, handlerVars, advVars>>

\* otherwise enter the bisection loop
IrrBracket ==
  /\ irr.pc = "call"
  /\ ~NoBracket(npv(irrIn.cashFlows, irrIn.guessLow), npv(irrIn.cashFlows, irrIn.guessHigh))
  /\ irr' = [irr EXCEPT !.pc = "loop", !.i = 0,
                        !.low = irrIn.guessLow, !.high = irrIn.guessHigh,
                        !.fLow = npv(irrIn.cashFlows, irrIn.guessLow),
                        !.fHigh = npv(irrIn.cashFlows, irrIn.guessHigh)]
  /\ UNCHANGED <<irrIn, tableVars, handlerVars, advVars>>

\* an iteration whose midpoint value is within tol of 0: return the midpoint
IrrConverged ==
  /\ irr.pc = "loop"
  /\ irr.i < irrIn.iterations
  /\ LET mid == Midpoint(irr.low, irr.high)
         fMid == npv(irrIn.cashFlows, mid)
     IN /\ Lt(MathAbs(fMid), irrIn.tol)
        /\ irr' = [irr EXCEPT !.pc = "returned", !.ret = mid]
  /\ UNCHANGED <<irrIn, tableVars, handlerVars, advVars>>

\* an iteration that halves the bracket
IrrBisect ==
  /\ irr.pc = "loop"
  /\ irr.i < irrIn.iterations
  /\ LET mid == Midpoint(irr.low, irr.high)
         fMid == npv(irrIn.cashFlows, mid)
     IN /\ ~Lt(MathAbs(fMid), irrIn.tol)
        /\ irr' = IF RootInLowerHalf(irr.fLow, fMid)
                  THEN [irr EXCEPT !.high = mid, !.fHigh = fMid, !.i = @ + 1]
                  ELSE [irr EXCEPT !.low = mid, !.fLow = fMid, !.i = @ + 1]
  /\ UNCHANGED <<irrIn, tableVars, handlerVars, advVars>>

\* the iterations are used up: return the midpoint of the final bracket
IrrExhausted ==
  /\ irr.pc = "loop"
  /\ irr.i >= irrIn.iterations
  /\ irr' = [irr EXCEPT !.pc = "returned", !.ret = Midpoint(irr.low, irr.high)]
  /\ UNCHANGED <<irrIn, tableVars, handlerVars, advVars>>

NextIRR ==
  \/ IrrNoBracket
  \/ IrrBracket
  \/ IrrConverged
  \/ IrrBisect
  \/ IrrExhausted

SpecIRR == InitIRR /\ [][NextIRR]_vars

Next ==
  \/ HandlerSimulationThrows
  \/ HandlerSimulationReturns
  \/ HandlerCreate
  \/ HandlerRespond
  \/ HandlerCatch
  \/ AdvThrow
  \/ AdvStart
  \/ AdvPeriod
  \/ AdvReturn

Spec == Init /\ [][Next]_vars

\* ================================================================== claims
Started == pc \in {"loop", "done"}
Profits == Column(results, "profit", 1)
CumulativeProfits == Column(results, "cumulativeProfit", 1)
Unresolved ==
  \/ req.businessId # 0 /\ ~Found(business)
  \/ req.strategyId # 0 /\ ~Found(strategy)
Present(x) == x.k # "undef"

\* the remaining balance of debt j after period k, and before it
RemainingAfter(k, j) == results[k].debts[j].remaining
RemainingBefore(k, j) ==
  IF k = 1 THEN results[k].debts[j].principal ELSE results[k - 1].debts[j].remaining

\* C1 (as claimed): for every debt, the remaining values recorded in periods
\* 1..t are numbers >= 0, start no higher than principal and never increase.
DebtRemainingNonIncreasing ==
  \A k \in 1..Len(results) : \A j \in 1..Len(results[k].debts) :
    /\ Ge(RemainingAfter(k, j), Zero)
    /\ Le(RemainingAfter(k, j), RemainingBefore(k, j))

\* C1 (supporting): the same statement restricted to debts with a rate > 0.
DebtRemainingNonIncreasingPositiveRate ==
  \A k \in 1..Len(results) : \A j \in 1..Len(results[k].debts) :
    Gt(debts[j].annualRate, Zero) =>
      /\ Ge(RemainingAfter(k, j), Zero)
      /\ Le(RemainingAfter(k, j), RemainingBefore(k, j))

\* C2: when a supplied id does not resolve, neither engine computes a period
\* or returns a result, and the handler answers with an error and stores no
\* SimulationRun.
NotFoundAborts ==
  Unresolved =>
    /\ pc \in {"start", "failed"}
    /\ t = 0 /\ results = <<>> /\ cashFlows = <<>> /\ result = NoDocument
    /\ hpc \in {"recv", "caught", "done"}
    /\ simResults = <<>>
    /\ SimulationRun = <<>>
    /\ hpc = "done" => (response.status = 400 /\ response.error # "")

NotFoundWitness ==
  /\ Unresolved /\ req.periods > 0
  /\ pc = "failed"
  /\ hpc = "done" /\ response.status = 400

\* C3: after t iterations results holds the records of periods 1..t in order
\* and cashFlows holds -initialInvestment followed by their net cash flows; on
\* return the lengths are periods and periods + 1.
ResultsAndCashFlowsShape ==
  Started =>
    /\ t <= req.periods
    /\ Len(results) = t
    /\ \A k \in 1..Len(results) : results[k].period = k
    /\ Len(cashFlows) = t + 1
    /\ cashFlows[1] = Neg(initialInvestment)
    /\ \A k \in 1..Len(results) : cashFlows[k + 1] = results[k].netCashFlow
    /\ pc = "done" =>
         /\ Len(result.results) = req.periods
         /\ result.results = results
         /\ Len(result.kpis.cashFlows) = req.periods + 1
         /\ result.kpis.cashFlows = cashFlows

ShapeWitness ==
  /\ pc = "done" /\ req.periods = MaxPeriods /\ Len(results) = MaxPeriods
  /\ Gt(initialInvestment, Zero)
  /\ Gt(results[1].debtPayment, Zero)

\* C4: cumulativeProfit of record k is the sum of the profit fields of records
\* 1..k, whatever was invested or paid on debts in those periods.
CumulativeProfitIsRunningSum ==
  \A k \in 1..Len(results) :
    results[k].cumulativeProfit = SumFrom(SubSeq(Profits, 1, k), 1, Zero)

RunningSumWitness ==
  /\ pc = "done" /\ Len(results) >= 2
  /\ Gt(results[1].investment, Zero)
  /\ Gt(results[2].debtPayment, Zero)
  /\ results[2].cumulativeProfit # results[2].profit
  /\ Lt(results[2].profit, Zero)

\* both engines have finished the same request from the same starting revenue
\* and cost, the advanced one applied the growth and cost rates runSimulation
\* applied, and it ran with stochastic off, no debts, no one-time investments
\* and no marketing
BothEnginesNeutral ==
  /\ hpc = "done" /\ response.status = 200
  /\ pc = "done"
  /\ StartRevenue(business, req.overrides) = business.revenue
  /\ StartCost(business, req.overrides) = business.cost
  /\ EffectiveGrowthRate(GrowthRateBase(strategy, req.overrides), req.overrides,
                         sDefaults) = strategy.growthRate
  /\ EffectiveCostRate(CostRateBase(strategy, req.overrides), req.overrides)
       = strategy.costRate
  /\ ~req.stochastic
  /\ debts = <<>>
  /\ oneTimeInvestments = <<>>
  /\ ~Gt(ToNumber(OrElse(req.overrides.marketingPerPeriod, Zero)), Zero)

SameTrajectory ==
  /\ Len(results) = Len(simResults)
  /\ \A k \in 1..Len(results) :
       /\ results[k].revenue = simResults[k].revenue
       /\ results[k].cost = simResults[k].cost
       /\ results[k].profit = simResults[k].profit

\* the lever the claim leaves out: the price change
PriceLeverNeutral ==
  ToNumber(OrElse(req.overrides.priceDeltaPercent, Zero)) = Zero

\* C5 (as claimed): for the same starting values and rates, with stochastic off
\* and no debts, investments or marketing, the advanced engine reproduces
\* runSimulation's revenue, cost and profit in every period.
AdvancedMatchesSimple == BothEnginesNeutral => SameTrajectory

\* C5 (amended): the same, when in addition priceDeltaPercent is absent or 0.
AdvancedMatchesSimpleAllNeutral ==
  (BothEnginesNeutral /\ PriceLeverNeutral) => SameTrajectory

AllNeutralWitness ==
  /\ BothEnginesNeutral /\ PriceLeverNeutral
  /\ req.scenario = "startup" /\ Present(req.overrides.growthRateDelta)
  /\ Len(results) = MaxPeriods
  /\ results[MaxPeriods].revenue # results[1].revenue
  /\ results[MaxPeriods].cost # results[1].cost

\* C6 (as claimed): an override of revenue, cost, growthRate or costRate that
\* is present supersedes the snapshot or strategy value; an absent one falls
\* back to the snapshot or strategy value and then to the default.
OverridesSupersede ==
  (pc = "loop" /\ t = 0) =>
    /\ revenue = IF Present(req.overrides.revenue) THEN ToNumber(req.overrides.revenue)
                 ELSE IF Found(business) THEN ToNumber(business.revenue)
                 ELSE Whole(1000)
    /\ cost = IF Present(req.overrides.cost) THEN ToNumber(req.overrides.cost)
              ELSE IF Found(business) THEN ToNumber(business.cost)
              ELSE Whole(500)
    /\ GrowthRateBase(strategy, req.overrides) =
         IF Present(req.overrides.growthRate) THEN ToNumber(req.overrides.growthRate)
         ELSE IF Found(strategy) THEN ToNumber(strategy.growthRate)
         ELSE Num(5)
    /\ CostRateBase(strategy, req.overrides) =
         IF Present(req.overrides.costRate) THEN ToNumber(req.overrides.costRate)
         ELSE IF Found(strategy) THEN ToNumber(strategy.costRate)
         ELSE Num(2)

\* C7 (as claimed): computeRiskIndex returns a record {std, mean, riskIndex}
\* with riskIndex = std, all three 0 for no profits, so a run of 0 periods
\* reports riskIndex, profitStdDev and profitMean as 0.
RiskIndexIsRecord ==
  pc = "done" =>
    /\ computeRiskIndex(Profits).k = "obj"
    /\ computeRiskIndex(Profits).riskIndex = computeRiskIndex(Profits).std
    /\ req.periods = 0 =>
         /\ result.kpis.riskIndex = Zero
         /\ result.kpis.profitStdDev = Zero
         /\ result.kpis.profitMean = Zero

\* C8: computeBreakEven is null for initialInvestment <= 0; otherwise it is k
\* exactly when period k is the first whose cumulative profit reaches
\* initialInvestment, and null exactly when no period reaches it.
BreakEvenIsFirstCrossing ==
  pc = "done" =>
    LET be == result.kpis.breakEvenPeriod
        cps == CumulativeProfits
        ii == initialInvestment
    IN /\ Le(ii, Zero) => be = Null
       /\ Gt(ii, Zero) =>
            /\ \A k \in 1..Len(cps) :
                 (be = Whole(k)) <=>
                   (Ge(cps[k], ii) /\ \A j \in 1..(k - 1) : Lt(cps[j], ii))
            /\ (be = Null) <=> (\A k \in 1..Len(cps) : ~Ge(cps[k], ii))

BreakEvenWitness ==
  /\ pc = "done" /\ Len(results) = MaxPeriods
  /\ result.kpis.breakEvenPeriod = Whole(2)
  /\ Lt(CumulativeProfits[1], initialInvestment)

\* the bracket claimed at the head of a bisection iteration
IrrBracketed ==
  /\ Le(irrIn.guessLow, irr.low) /\ Le(irr.low, irr.high)
  /\ Le(irr.high, irrIn.guessHigh)
  /\ Le(ProductSign(irr.fLow, irr.fHigh), Zero)
  /\ irr.fLow = npv(irrIn.cashFlows, irr.low)
  /\ irr.fHigh = npv(irrIn.cashFlows, irr.high)

IrrClaim ==
  /\ irr.pc \in {"loop", "returned"} =>
       ((irr.pc = "returned" /\ irr.ret = Null) <=>
          NoBracket(npv(irrIn.cashFlows, irrIn.guessLow),
                    npv(irrIn.cashFlows, irrIn.guessHigh)))
  /\ (irr.pc = "loop" /\ irr.i < irrIn.iterations) => IrrBracketed
  /\ (irr.pc = "returned" /\ irr.ret # Null) =>
       /\ irr.i <= irrIn.iterations
       /\ Le(irr.low, irr.ret) /\ Le(irr.ret, irr.high)

\* C9 (as claimed): computeIRR returns null exactly when the values at the
\* initial bounds have a product > 0; otherwise every iteration starts with
\* guessLow <= low <= high <= guessHigh, fLow*fHigh <= 0, fLow = NPV(low) and
\* fHigh = NPV(high), and the rate returned lies in the current bracket.
IrrBracketInvariant == IrrClaim

\* C9 (supporting): the same statement for cash flows that are all numbers.
IrrBracketInvariantFiniteFlows ==
  (\A k \in 1..Len(irrIn.cashFlows) : IsNum(irrIn.cashFlows[k])) => IrrClaim

\* C10 (as claimed): meta.startingRevenue and meta.startingCost are the
\* revenue and cost the run started from.
MetaStartingValues ==
  pc = "done" =>
    /\ result.meta.startingRevenue = StartRevenue(business, req.overrides)
    /\ result.meta.startingCost = StartCost(business, req.overrides)
====
